---- MODULE Spec2Model ----
(***************************************************************************)
(* Model of nltk/lm/vocabulary.py: the Vocabulary class (a Counter of      *)
(* token counts filtered by a cutoff, plus an "unknown" label) and the     *)
(* single-dispatch function _dispatched_lookup.                            *)
(*                                                                         *)
(* Python objects live in a heap: every Counter is a heap cell, and a      *)
(* Vocabulary holds a reference to its Counter, so that two vocabularies   *)
(* built over the same Counter alias it exactly as in the code.            *)
(***************************************************************************)
EXTENDS Integers, Sequences, FiniteSets, TLC

\* ----------------------------------------------------------------- bounds
MaxLen == 2          \* longest token sequence handed to update / Vocabulary
MaxCount == 2        \* cap on a stored count (guard of the tallying steps)
MaxCutoff == 2       \* largest unk_cutoff tried at construction

\* ------------------------------------------------------------ input sets
Tokens == {"a", "b", "<UNK>"}
UnkLabels == {"<UNK>", "b"}
CutoffArgs == (0 - 1)..MaxCutoff
VocabNames == {"vocab", "vocab2"}

SeqsOver(S) == UNION {[1..k -> S] : k \in 0..MaxLen}

\* Python values handed to lookup: a str, a value that is neither a str nor
\* an Iterable (an int, None), or an Iterable of such values.
StrVal(t) == [kind |-> "str", tok |-> t, items |-> <<>>]
IntVal == [kind |-> "int", tok |-> "", items |-> <<>>]
IterVal(xs) == [kind |-> "iterable", tok |-> "", items |-> xs]
ScalarInputs == {StrVal(t) : t \in Tokens} \cup {IntVal}
WordLists ==
  { <<>>,
    <<StrVal("a")>>,
    <<StrVal("a"), StrVal("b")>>,
    <<StrVal("b"), StrVal("a")>>,
    <<StrVal("a"), StrVal("a")>>,
    <<StrVal("<UNK>"), StrVal("a")>>,
    <<StrVal("b"), StrVal("a"), StrVal("b")>>,
    <<IntVal>>,
    <<StrVal("a"), IntVal>>,
    <<IntVal, StrVal("a")>>,
    <<IterVal(<<StrVal("a")>>), StrVal("b")>> }
IterInputs == {IterVal(xs) : xs \in WordLists}
LookupInputs == ScalarInputs \cup IterInputs

\* Results of _dispatched_lookup: a str, a generator object, or a raise.
StrRes(t) == [kind |-> "str", tok |-> t, items |-> <<>>]
GenRes(xs) == [kind |-> "generator", tok |-> "", items |-> xs]
TypeErrorRes == [kind |-> "TypeError", tok |-> "", items |-> <<>>]
StopIterationRes == [kind |-> "StopIteration", tok |-> "", items |-> <<>>]
ListRes(rs) == [kind |-> "list", tok |-> "", items |-> rs]

\* counts argument of Vocabulary(...): None, an iterable of tokens, a Counter
NoneArg == [kind |-> "None", seq |-> <<>>, ref |-> 0]
IterableArg(s) == [kind |-> "Iterable", seq |-> s, ref |-> 0]
CounterArg(r) == [kind |-> "Counter", seq |-> <<>>, ref |-> r]
InitArgs(c, k, u) == [counts |-> c, unk_cutoff |-> k, unk_label |-> u]

VARIABLES
  heap,     \* sequence of Counter objects; a reference is an index
  vocabs,   \* constructed Vocabulary objects, by the name that holds them
  given,    \* for each of them, the Counter it was handed as counts (0: none)
  gen,      \* the generator object returned by the latest lookup(iterable)
  out,      \* the results the caller has consumed from gen so far
  last      \* the latest call: operation, receiver, argument, outcome

vars == <<heap, vocabs, given, gen, out, last>>

\* --------------------------------------------------- collections.Counter
\* A Counter is a function from its keys to their counts.  Counts are only
\* ever tallied from token sequences here, so every key has a count >= 1.
EmptyCounter == [k \in {} |-> 0]

\* Counter.__missing__: a key that is absent reads as 0 and is not inserted
CounterGet(c, k) == IF k \in DOMAIN c THEN c[k] ELSE 0

\* a tallying slip: the count of an element is set, not incremented
RECURSIVE CounterUpdateOverwrite(_, _)
CounterUpdateOverwrite(c, iterable) ==
  IF iterable = <<>> THEN c
  ELSE LET elem == Head(iterable)
           c1 == [k \in DOMAIN c \cup {elem} |->
                    IF k = elem THEN 1 ELSE c[k]]
       IN CounterUpdateOverwrite(c1, Tail(iterable))

\* Counter.update(iterable): for elem in iterable: c[elem] = c.get(elem, 0) + 1
RECURSIVE CounterUpdate(_, _)
CounterUpdate(c, iterable) ==
  IF iterable = <<>> THEN c
  ELSE LET elem == Head(iterable)
           c1 == [k \in DOMAIN c \cup {elem} |->
                    IF k = elem THEN CounterGet(c, elem) + 1 ELSE c[k]]
       IN CounterUpdate(c1, Tail(iterable))

WithinCap(c) == \A k \in DOMAIN c : c[k] <= MaxCount

\* ------------------------------------------------------------ Vocabulary
Counts(voc) == heap[voc.counts]

Cutoff(voc) == voc.cutoff

\* the unknown label is not special-cased
GetItemRaw(voc, item) == CounterGet(Counts(voc), item)

GetItem(voc, item) ==
  IF item = voc.unk_label THEN voc.cutoff ELSE CounterGet(Counts(voc), item)

\* strictly greater instead of greater or equal
ContainsStrict(voc, item) == GetItem(voc, item) > Cutoff(voc)

Contains(voc, item) == GetItem(voc, item) >= Cutoff(voc)

\* the orders in which a dict may hand out its keys
Orderings(S) ==
  {s \in [1..Cardinality(S) -> S] : \A i, j \in DOMAIN s : s[i] = s[j] => i = j}

\* chain((item for item in self.counts if item in self),
\*       [self.unk_label] if self.counts else [])
Iter(voc, order) ==
  SelectSeq(order, LAMBDA item : Contains(voc, item))
    \o (IF DOMAIN Counts(voc) # {} THEN <<voc.unk_label>> ELSE <<>>)

\* sum(1 for _ in self)
RECURSIVE SumOnes(_)
SumOnes(s) == IF s = <<>> THEN 0 ELSE 1 + SumOnes(Tail(s))

VocabLen(voc, order) == SumOnes(Iter(voc, order))

\* unk_cutoff < 1 checked as unk_cutoff < 0
InvalidCutoffOffByOne(unk_cutoff) == unk_cutoff < 0

InvalidCutoff(unk_cutoff) == unk_cutoff < 1

\* a Counter argument is copied instead of adopted
InitCountsCopy(counts) ==
  [heap |-> Append(heap,
                   IF counts.kind = "Counter" THEN heap[counts.ref]
                   ELSE IF counts.kind = "Iterable"
                        THEN CounterUpdate(EmptyCounter, counts.seq)
                        ELSE EmptyCounter),
   ref |-> Len(heap) + 1]

\* self.counts: a Counter argument is adopted as it is; anything else gets a
\* fresh Counter, filled from the argument when it is iterable
InitCounts(counts) ==
  IF counts.kind = "Counter"
  THEN [heap |-> heap, ref |-> counts.ref]
  ELSE [heap |-> Append(heap,
                        IF counts.kind = "Iterable"
                        THEN CounterUpdate(EmptyCounter, counts.seq)
                        ELSE EmptyCounter),
        ref |-> Len(heap) + 1]

\* ----------------------------------------------------- _dispatched_lookup
\* str overload: word if word in vocab else vocab.unk_label
LookupStr(word, voc) == IF Contains(voc, word) THEN word ELSE voc.unk_label

\* the fallback maps to the unknown label instead of raising
DispatchedLookupLenient(words, voc) ==
  CASE words.kind = "str" -> StrRes(LookupStr(words.tok, voc))
    [] words.kind = "iterable" -> GenRes(words.items)
    [] OTHER -> StrRes(voc.unk_label)

\* singledispatch on the type of the first argument
DispatchedLookup(words, voc) ==
  CASE words.kind = "str" -> StrRes(LookupStr(words.tok, voc))
    [] words.kind = "iterable" -> GenRes(words.items)
    [] OTHER -> TypeErrorRes

\* the results are collected in reverse
RECURSIVE DrainReversed(_, _, _, _)
DrainReversed(items, i, voc, acc) ==
  IF i > Len(items) THEN ListRes(acc)
  ELSE LET r == DispatchedLookup(items[i], voc)
       IN IF r.kind = "TypeError" THEN TypeErrorRes
          ELSE DrainReversed(items, i + 1, voc, <<r>> \o acc)

\* list(generator): consume items from position i on; a raise inside the
\* generator expression propagates out of list()
RECURSIVE Drain(_, _, _, _)
Drain(items, i, voc, acc) ==
  IF i > Len(items) THEN ListRes(acc)
  ELSE LET r == DispatchedLookup(items[i], voc)
       IN IF r.kind = "TypeError" THEN TypeErrorRes
          ELSE Drain(items, i + 1, voc, Append(acc, r))

\* the generator stays on the same element
AdvanceStuck(g) == g

\* for w in words: the generator moves on to the next element
Advance(g) == [g EXCEPT !.pos = g.pos + 1]

\* ------------------------------------------------------------------ state
NoGen == [state |-> "none", vocab |-> "", words |-> <<>>, pos |-> 0]
NoCall == [op |-> "none", self |-> "", arg |-> <<>>, ret |-> <<>>]
Call(o, s, a, r) == [op |-> o, self |-> s, arg |-> a, ret |-> r]

Init ==
  /\ heap = <<>>
  /\ vocabs = [n \in {} |-> 0]
  /\ given = [n \in {} |-> 0]
  /\ gen = NoGen
  /\ out = <<>>
  /\ last = NoCall

\* ---------------------------------------------------------------- actions
\* name = Vocabulary(counts, unk_cutoff, unk_label)
\* The cutoff is validated after self.counts and self.unk_label are set; on a
\* raise the object is never bound to a name (and a fresh Counter is garbage).
VocabularyInit(name, counts, unk_cutoff, unk_label) ==
  LET c == InitCounts(counts)
      self == [counts |-> c.ref, unk_label |-> unk_label, cutoff |-> unk_cutoff]
  IN /\ name \notin DOMAIN vocabs
     /\ counts.kind = "Counter" => counts.ref \in 1..Len(heap)
     /\ IF InvalidCutoff(unk_cutoff)
        THEN /\ last' = Call("init", name,
                             InitArgs(counts, unk_cutoff, unk_label), "ValueError")
             /\ UNCHANGED <<heap, vocabs, given, gen, out>>
        ELSE /\ WithinCap(c.heap[c.ref])
             /\ heap' = c.heap
             /\ vocabs' = [n \in DOMAIN vocabs \cup {name} |->
                             IF n = name THEN self ELSE vocabs[n]]
             /\ given' = [n \in DOMAIN given \cup {name} |->
                            IF n = name THEN counts.ref ELSE given[n]]
             /\ last' = Call("init", name,
                             InitArgs(counts, unk_cutoff, unk_label), "ok")
             /\ UNCHANGED <<gen, out>>

\* vocab.update(tokens): self.counts.update(tokens)
Update(name, tokens) ==
  /\ name \in DOMAIN vocabs
  /\ LET ref == vocabs[name].counts
         c == CounterUpdate(heap[ref], tokens)
     IN /\ WithinCap(c)
        /\ heap' = [heap EXCEPT ![ref] = c]
  /\ last' = Call("update", name, tokens, "None")
  /\ UNCHANGED <<vocabs, given, gen, out>>

\* vocab.counts.update(tokens): the caller updates the mapping directly
CountsUpdate(name, tokens) ==
  /\ name \in DOMAIN vocabs
  /\ LET ref == vocabs[name].counts
         c == CounterUpdate(heap[ref], tokens)
     IN /\ WithinCap(c)
        /\ heap' = [heap EXCEPT ![ref] = c]
  /\ last' = Call("counts.update", name, tokens, "None")
  /\ UNCHANGED <<vocabs, given, gen, out>>

\* vocab[item]
GetItemCall(name, item) ==
  /\ name \in DOMAIN vocabs
  /\ last' = Call("getitem", name, item, GetItem(vocabs[name], item))
  /\ UNCHANGED <<heap, vocabs, given, gen, out>>

\* item in vocab
ContainsCall(name, item) ==
  /\ name \in DOMAIN vocabs
  /\ last' = Call("contains", name, item, Contains(vocabs[name], item))
  /\ UNCHANGED <<heap, vocabs, given, gen, out>>

\* list(vocab)
IterCall(name) ==
  /\ name \in DOMAIN vocabs
  /\ \E order \in Orderings(DOMAIN Counts(vocabs[name])) :
       last' = Call("iter", name, <<>>, Iter(vocabs[name], order))
  /\ UNCHANGED <<heap, vocabs, given, gen, out>>

\* len(vocab)
LenCall(name) ==
  /\ name \in DOMAIN vocabs
  /\ \E order \in Orderings(DOMAIN Counts(vocabs[name])) :
       last' = Call("len", name, <<>>, VocabLen(vocabs[name], order))
  /\ UNCHANGED <<heap, vocabs, given, gen, out>>

\* vocab.lookup(words): a str or a raise comes back at once; an iterable
\* comes back as a suspended generator that has done no lookup yet
Lookup(name, words) ==
  /\ name \in DOMAIN vocabs
  /\ LET r == DispatchedLookup(words, vocabs[name])
     IN /\ last' = Call("lookup", name, words, r)
        /\ IF r.kind = "generator"
           THEN /\ gen' = [state |-> "suspended", vocab |-> name,
                           words |-> r.items, pos |-> 1]
                /\ out' = <<>>
           ELSE UNCHANGED <<gen, out>>
  /\ UNCHANGED <<heap, vocabs, given>>

\* list(vocab.lookup(words)) in one go, as the doctests do
LookupList(name, words) ==
  /\ name \in DOMAIN vocabs
  /\ LET r == DispatchedLookup(words, vocabs[name])
     IN last' = Call("list", name, words,
                     IF r.kind = "generator"
                     THEN Drain(r.items, 1, vocabs[name], <<>>)
                     ELSE TypeErrorRes)
  /\ UNCHANGED <<heap, vocabs, given, gen, out>>

\* next(gen): one step of (_dispatched_lookup(w, vocab) for w in words).
\* A raise inside the generator finishes it; a finished generator raises
\* StopIteration on every further next().
GenNext ==
  /\ gen.state # "none"
  /\ IF gen.state = "suspended" /\ gen.pos <= Len(gen.words)
     THEN LET r == DispatchedLookup(gen.words[gen.pos], vocabs[gen.vocab])
          IN IF r.kind = "TypeError"
             THEN /\ gen' = [gen EXCEPT !.state = "closed"]
                  /\ out' = out
                  /\ last' = Call("next", gen.vocab, gen.pos, r)
             ELSE /\ gen' = Advance(gen)
                  /\ out' = Append(out, r)
                  /\ last' = Call("next", gen.vocab, gen.pos, r)
     ELSE /\ gen' = [gen EXCEPT !.state = "closed"]
          /\ out' = out
          /\ last' = Call("next", gen.vocab, gen.pos, StopIterationRes)
  /\ UNCHANGED <<heap, vocabs, given>>

\* --------------------------------------------------------- specifications
\* the counts arguments a caller can pass: nothing, a token sequence, or the
\* counts of a vocabulary that exists
CountsArgs(toks) ==
  {NoneArg} \cup {IterableArg(s) : s \in SeqsOver(toks)}
            \cup {CounterArg(vocabs[n].counts) : n \in DOMAIN vocabs}

Construct(names, toks, labels) ==
  \E name \in names, c \in CountsArgs(toks), k \in CutoffArgs, u \in labels :
    VocabularyInit(name, c, k, u)

\* one vocabulary and every operation on it
Next ==
  \/ Construct({"vocab"}, Tokens, UnkLabels)
  \/ \E s \in SeqsOver(Tokens) : Update("vocab", s)
  \/ \E t \in Tokens : GetItemCall("vocab", t)
  \/ \E t \in Tokens : ContainsCall("vocab", t)
  \/ IterCall("vocab")
  \/ LenCall("vocab")
  \/ \E w \in ScalarInputs : Lookup("vocab", w)
  \/ \E w \in LookupInputs : LookupList("vocab", w)

Spec == Init /\ [][Next]_vars

\* two vocabularies that may share one Counter
SharedTokens == {"a", "<UNK>"}

NextShared ==
  \/ Construct(VocabNames, SharedTokens, {"<UNK>"})
  \/ \E n \in VocabNames, s \in SeqsOver(SharedTokens) : Update(n, s)
  \/ \E n \in VocabNames, t \in SharedTokens : CountsUpdate(n, <<t>>)

SpecShared == Init /\ [][NextShared]_vars

\* one vocabulary, updates interleaved with the consumption of a lazy lookup
LazyTokens == {"a", "b"}

NextLazy ==
  \/ Construct({"vocab"}, LazyTokens, {"<UNK>"})
  \/ \E s \in SeqsOver(LazyTokens) : Update("vocab", s)
  \/ \E w \in LookupInputs : Lookup("vocab", w)
  \/ GenNext

SpecLazy == Init /\ [][NextLazy]_vars

\* ----------------------------------------------------------------- claims
\* what the latest call was made on
Self == vocabs[last.self]
Stored == heap[vocabs[last.self].counts]

\* how many times t occurs in the sequence s
Times(s, t) == Cardinality({i \in DOMAIN s : s[i] = t})
Elems(s) == {s[i] : i \in DOMAIN s}
AllStr(xs) == \A i \in DOMAIN xs : xs[i].kind = "str"

\* the token a single lookup is to give, from the stored counts
Known(voc, counter, t) ==
  IF t = voc.unk_label \/ CounterGet(counter, t) >= voc.cutoff
  THEN t ELSE voc.unk_label

\* C1 as stated: whenever "t in vocab" is evaluated for a token t that is a
\* key of counts, the answer is true iff the stored count of t is >= cutoff.
C1_Original ==
  last.op = "contains" /\ last.arg \in DOMAIN Stored
    => (last.ret <=> Stored[last.arg] >= Self.cutoff)

\* C1 amended: whenever "t in vocab" is evaluated for a token t that is a key
\* of counts, the answer is true iff t is the unk_label or the stored count
\* of t is >= cutoff.
C1_Membership ==
  last.op = "contains" /\ last.arg \in DOMAIN Stored
    => (last.ret <=> (last.arg = Self.unk_label \/ Stored[last.arg] >= Self.cutoff))

\* a counted token other than the unk_label whose count is exactly the cutoff
\* of 2 has been found to be a member
C1_Witness ==
  /\ last.op = "contains"
  /\ last.arg \in DOMAIN Stored
  /\ last.arg # Self.unk_label
  /\ Self.cutoff = 2
  /\ Stored[last.arg] = 2
  /\ last.ret = TRUE

\* C2: whenever len(vocab) is evaluated, it is 0 if counts is empty, and
\* otherwise the number of keys whose stored count is >= cutoff, plus one.
C2_Len ==
  last.op = "len"
    => last.ret = IF DOMAIN Stored = {} THEN 0
                  ELSE Cardinality({t \in DOMAIN Stored : Stored[t] >= Self.cutoff}) + 1

\* C3: a lookup of one str gives the token itself if it is a member and the
\* unk_label otherwise; a fully consumed lookup of a sequence of strs gives
\* a list as long as the input whose i-th entry is the lookup of the i-th word.
C3_Lookup ==
  /\ last.op = "lookup" /\ last.arg.kind = "str"
       => last.ret = StrRes(Known(Self, Stored, last.arg.tok))
  /\ last.op = "list" /\ last.arg.kind = "iterable" /\ AllStr(last.arg.items)
       => /\ last.ret.kind = "list"
          /\ Len(last.ret.items) = Len(last.arg.items)
          /\ \A i \in DOMAIN last.arg.items :
               last.ret.items[i] = StrRes(Known(Self, Stored, last.arg.items[i].tok))

\* a two-word lookup whose first word is kept and whose second word is mapped
\* to the unk_label
C3_Witness ==
  /\ last.op = "list"
  /\ last.arg = IterVal(<<StrVal("a"), StrVal("b")>>)
  /\ last.ret = ListRes(<<StrRes("a"), StrRes("<UNK>")>>)

\* C4: whenever vocab[token] is evaluated, it is the cutoff if token is the
\* unk_label (whatever counts holds for it), and the stored count of the
\* token (0 if it is no key) otherwise, below the cutoff or not.
C4_GetItem ==
  last.op = "getitem"
    => last.ret = IF last.arg = Self.unk_label THEN Self.cutoff
                  ELSE IF last.arg \in DOMAIN Stored THEN Stored[last.arg] ELSE 0

\* vocab[unk_label] has given the cutoff while counts holds another count
\* for the unk_label
C4_Witness ==
  /\ last.op = "getitem"
  /\ last.arg = Self.unk_label
  /\ last.arg \in DOMAIN Stored
  /\ Stored[last.arg] # Self.cutoff
  /\ last.ret = Self.cutoff

\* C5: a step update(tokens) raises the stored count of every token by the
\* number of its occurrences in tokens, makes exactly the tokens of the
\* sequence new keys, and leaves every other Counter and every vocabulary
\* field alone; and no step at all changes the cutoff or the unk_label of a
\* constructed vocabulary.
C5_Update ==
  [][ /\ last'.op = "update"
           => LET ref == vocabs[last'.self].counts
              IN /\ \A t \in Tokens :
                      CounterGet(heap'[ref], t)
                        = CounterGet(heap[ref], t) + Times(last'.arg, t)
                 /\ DOMAIN heap'[ref] = DOMAIN heap[ref] \cup Elems(last'.arg)
                 /\ \A r \in DOMAIN heap : r # ref => heap'[r] = heap[r]
                 /\ vocabs' = vocabs
      /\ \A n \in DOMAIN vocabs :
           /\ n \in DOMAIN vocabs'
           /\ vocabs'[n].cutoff = vocabs[n].cutoff
           /\ vocabs'[n].unk_label = vocabs[n].unk_label ]_vars

\* update(["a", "a"]) has brought the count of "a" from 0 to 2 while another
\* token keeps its count of 1
C5_Witness ==
  /\ last.op = "update"
  /\ last.arg = <<"a", "a">>
  /\ "b" \in DOMAIN Stored
  /\ Stored["b"] = 1
  /\ Stored["a"] = 2

\* the vocabularies n and m, where n was constructed from the counts of m
SharedPairs ==
  {p \in (DOMAIN vocabs) \X (DOMAIN vocabs) :
     p[1] # p[2] /\ given[p[1]] # 0 /\ given[p[1]] = vocabs[p[2]].counts}

\* C6 as stated: a vocabulary constructed from another one's counts sees the
\* very same stored counts as the other one in every state, and for each of
\* the two a token is a member iff its shared count is >= that vocabulary's
\* cutoff.
C6_Original ==
  \A p \in SharedPairs :
    /\ Counts(vocabs[p[1]]) = Counts(vocabs[p[2]])
    /\ \A i \in {1, 2}, t \in Tokens :
         Contains(vocabs[p[i]], t)
           <=> CounterGet(heap[given[p[1]]], t) >= vocabs[p[i]].cutoff

\* C6 amended: as C6, with the membership rule for each of the two
\* vocabularies stated for the tokens other than that vocabulary's unk_label.
C6_Shared ==
  \A p \in SharedPairs :
    /\ Counts(vocabs[p[1]]) = Counts(vocabs[p[2]])
    /\ \A i \in {1, 2}, t \in Tokens :
         t # vocabs[p[i]].unk_label
           => (Contains(vocabs[p[i]], t)
                 <=> CounterGet(heap[given[p[1]]], t) >= vocabs[p[i]].cutoff)

\* after an update, two vocabularies over one mapping with different cutoffs:
\* "a" is a member of the one and not of the other
C6_Witness ==
  /\ last.op \in {"update", "counts.update"}
  /\ \E p \in SharedPairs :
       /\ vocabs[p[1]].cutoff # vocabs[p[2]].cutoff
       /\ Contains(vocabs[p[1]], "a")
       /\ ~Contains(vocabs[p[2]], "a")
       /\ CounterGet(Counts(vocabs[p[2]]), "a") = 1

\* C7: a step Vocabulary(counts, unk_cutoff, unk_label) raises ValueError
\* iff unk_cutoff < 1; when it raises, no vocabulary comes to exist and no
\* Counter changes; when it does not, the new vocabulary's cutoff is
\* unk_cutoff.
C7_Construct ==
  [][ last'.op = "init"
        => /\ last'.ret \in {"ok", "ValueError"}
           /\ last'.ret = "ValueError" <=> last'.arg.unk_cutoff < 1
           /\ last'.ret = "ValueError" => vocabs' = vocabs /\ heap' = heap
           /\ last'.ret = "ok"
                => /\ last'.self \in DOMAIN vocabs'
                   /\ last'.self \notin DOMAIN vocabs
                   /\ vocabs'[last'.self].cutoff = last'.arg.unk_cutoff ]_vars

\* a construction from an existing count mapping with unk_cutoff = 0 has
\* raised ValueError
C7_Witness ==
  /\ last.op = "init"
  /\ last.arg.counts.kind = "Counter"
  /\ last.arg.unk_cutoff = 0
  /\ last.ret = "ValueError"

\* a str, or an iterable whose elements are all strs
WellTyped(w) == w.kind = "str" \/ (w.kind = "iterable" /\ AllStr(w.items))
Raises(w) == w.kind \notin {"str", "iterable"}

\* C8 as stated: a step lookup(input) with an input that is neither a str
\* nor a sequence of strs raises TypeError in the call itself, and leaves the
\* counts unchanged.
C8_Original ==
  [][ last'.op = "lookup" /\ ~WellTyped(last'.arg)
        => last'.ret.kind = "TypeError" /\ heap' = heap ]_vars

\* C8 amended: a step lookup(input) raises TypeError in the call itself iff
\* the input is neither a str nor an iterable; for an iterable the TypeError
\* is raised by the step that consumes an element that is neither a str nor
\* an iterable, and by no other; the counts are unchanged by all these steps.
C8_TypeError ==
  [][ /\ last'.op = "lookup"
           => /\ last'.ret.kind = "TypeError" <=> Raises(last'.arg)
              /\ heap' = heap
      /\ last'.op = "next"
           => /\ last'.ret.kind = "TypeError"
                   <=> /\ gen.state = "suspended"
                       /\ gen.pos <= Len(gen.words)
                       /\ Raises(gen.words[gen.pos])
              /\ heap' = heap ]_vars

\* the TypeError for the second element of ["a", 1] has been raised on
\* consumption, after the first element was yielded
C8_Witness ==
  /\ last.op = "next"
  /\ last.ret.kind = "TypeError"
  /\ gen.words = <<StrVal("a"), IntVal>>
  /\ gen.pos = 2
  /\ Len(out) = 1

\* C9: whenever the vocabulary is iterated, a token is yielded iff the
\* membership test is true for it, and the unk_label is yielded exactly once
\* if counts is non-empty.
C9_IterAgrees ==
  last.op = "iter"
    => /\ \A t \in Tokens : t \in Elems(last.ret) <=> Contains(Self, t)
       /\ DOMAIN Stored # {} => Times(last.ret, Self.unk_label) = 1

\* C10: a step next(gen) on a lazy lookup of strs that has elements left
\* yields the single lookup of the next word in the counts as they are at
\* that step, and moves on by one; with no element left it yields nothing,
\* the results so far being as many as the words; and a finished lazy
\* sequence yields nothing more.
C10_Lazy ==
  [][ last'.op = "next" /\ AllStr(gen.words)
        => IF gen.state = "suspended" /\ gen.pos <= Len(gen.words)
           THEN /\ last'.ret = StrRes(Known(vocabs[gen.vocab],
                                            Counts(vocabs[gen.vocab]),
                                            gen.words[gen.pos].tok))
                /\ out' = Append(out, last'.ret)
                /\ gen'.pos = gen.pos + 1
                /\ gen'.state = "suspended"
           ELSE /\ last'.ret = StopIterationRes
                /\ out' = out
                /\ gen'.state = "closed"
                /\ Len(out) = Len(gen.words) ]_vars

\* the lazy lookup of ["a", "a"] has been consumed to its end and gave the
\* unk_label for the first "a" and "a" for the second: the count of "a" was
\* raised between the two
C10_Witness ==
  /\ gen.words = <<StrVal("a"), StrVal("a")>>
  /\ gen.state = "closed"
  /\ out = <<StrRes("<UNK>"), StrRes("a")>>

====
